---- MODULE Spec2Model ----
(***************************************************************************)
(* The storage-staking ledger of the fungible-token contract               *)
(* (contracts/ft/src/storage_impl.rs): registration (storage_deposit),     *)
(* the balance views, storage_withdraw and storage_unregister, together    *)
(* with the promises (outbound transfers) each call schedules; and the     *)
(* minting entry point of the non-fungible-token contract                  *)
(* (contracts/nft/src/lib.rs): nft_mint.                                    *)
(*                                                                         *)
(* A call runs as one atomic step.  A call that panics is rolled back by   *)
(* the runtime: no state change and no promise survives it.                *)
(***************************************************************************)
EXTENDS Integers, Sequences, FiniteSets, TLC

VARIABLES
    accounts,               \* self.token.accounts : AccountId -> Balance (LookupMap)
    total_supply,           \* self.token.total_supply
    account_storage_usage,  \* self.account_storage_usage (fixed at construction)
    storage_byte_cost,      \* env::storage_byte_cost(), the current byte price
    receipts,               \* receivers of the transfers scheduled by committed calls
                            \* and not yet executed: receiver -> number waiting
    last,                   \* the call made by the last step and what it produced
    bond,                   \* the books: what the contract kept of the payment that
                            \* registered each account (account -> amount)
    net,                    \* the books: payments kept from committed calls, less the
                            \* transfers scheduled
    tokens_by_id,           \* nft: self.tokens_by_id : TokenId -> Token (LookupMap)
    token_metadata_by_id,   \* nft: self.token_metadata_by_id : TokenId -> TokenMetadata
    tokens_per_owner,       \* nft: self.tokens_per_owner : AccountId -> set of TokenId
    overflow_checks,        \* nft: whether the build panics on arithmetic overflow
    last_mint               \* nft: the nft_mint call made by the last step

vars == <<accounts, total_supply, account_storage_usage, storage_byte_cost, receipts, last,
          bond, net, tokens_by_id, token_metadata_by_id, tokens_per_owner,
          overflow_checks, last_mint>>

----------------------------------------------------------------------------
(* Bounds of the model *)

MaxBalance == 2     \* largest token balance of one account
MaxExcess == 1      \* storage_deposit attaches 0 .. min + MaxExcess
MaxConfirm == 2     \* storage_withdraw / storage_unregister attach 0 .. MaxConfirm
MaxAmount == 1      \* storage_withdraw asks for None or Some(0 .. MaxAmount)
MaxPrice == 2       \* the byte price ranges over 1 .. MaxPrice
StorageUsage == 2   \* the bytes one account record takes, measured at construction
MaxReceipts == 1    \* promises that may be waiting at once
MaxNet == 4         \* the books are kept while net stays within -MaxNet .. MaxNet
MaxAttached == 6    \* nft_mint attaches 0 .. MaxAttached
ContractBalance == 3  \* what the nft contract holds when it is called
BalanceBits == 6    \* width of Balance (u128 in the source)
EntryBytes == 1     \* bytes of one entry of a collection of the nft contract

AccountIds == {"alice", "bob"}

----------------------------------------------------------------------------
(* Option<T> *)

None == <<>>
Some(x) == <<x>>
is_some(o) == o # <<>>
unwrap(o) == o[1]

Options(S) == {None} \cup {Some(x) : x \in S}

(* Outcomes of a call: it returns, or it panics with one of these. *)
Ok == "Ok"
InsufficientDeposit == "InsufficientDeposit"
    \* "The attached deposit is less than the minimum storage balance"
MissingConfirmationPayment == "MissingConfirmationPayment"
    \* "Requires attached deposit of exactly 1 yoctoNEAR"
UnregisteredCaller == "UnregisteredCaller"
    \* "The account {} is not registered"
ExcessiveWithdrawal == "ExcessiveWithdrawal"
    \* "The amount is greater than the available storage balance"
NonZeroBalanceWithoutForce == "NonZeroBalanceWithoutForce"
    \* "Can't unregister the account with the positive balance without force"

RECURSIVE SumOver(_, _)
SumOver(f, S) ==
    IF S = {} THEN 0
    ELSE LET x == CHOOSE y \in S : TRUE IN f[x] + SumOver(f, S \ {x})

(* The sum of the balances of the registered accounts. *)
SumBalances(accts) == SumOver(accts, DOMAIN accts)

(* LookupMap::insert and LookupMap::remove *)
insert(accts, account_id, balance) ==
    [a \in (DOMAIN accts) \cup {account_id} |->
        IF a = account_id THEN balance ELSE accts[a]]

remove(accts, account_id) ==
    [a \in (DOMAIN accts) \ {account_id} |-> accts[a]]

(* Promise::new(receiver).transfer(amount) *)
Transfer(receiver, amount) == [receiver_id |-> receiver, amount |-> amount]

(* log!(...) *)
Log(event, account_id, balance) ==
    [event |-> event, account_id |-> account_id, balance |-> balance]

(* What a call does: how it ends, the ledger it leaves, the promises it  *)
(* schedules, the lines it logs and the value it returns.                 *)
Effect(outcome, accts, supply, promises, logs, ret) ==
    [outcome |-> outcome, accounts |-> accts, total_supply |-> supply,
     promises |-> promises, logs |-> logs, ret |-> ret]

(* env::panic: the runtime rolls the call back. *)
Panic(kind) == Effect(kind, accounts, total_supply, <<>>, <<>>, None)

----------------------------------------------------------------------------
(* The contract *)

(* Variant: the bound is the one computed under the lowest byte price. *)
storage_balance_bounds_stale ==
    LET required_storage_balance == account_storage_usage
    IN  [min |-> required_storage_balance, max |-> Some(required_storage_balance)]

storage_balance_bounds ==
    LET required_storage_balance == account_storage_usage * storage_byte_cost
    IN  [min |-> required_storage_balance, max |-> Some(required_storage_balance)]

(* Variant: the token balance is reported as available storage balance. *)
internal_storage_balance_of_available(accts, account_id) ==
    IF account_id \in DOMAIN accts
    THEN Some([total |-> storage_balance_bounds.min + accts[account_id],
               available |-> accts[account_id]])
    ELSE None

internal_storage_balance_of(accts, account_id) ==
    IF account_id \in DOMAIN accts
    THEN Some([total |-> storage_balance_bounds.min, available |-> 0])
    ELSE None

storage_balance_of(account_id) == internal_storage_balance_of(accounts, account_id)

(* Variant: any nonzero payment confirms. *)
assert_one_yocto_at_least(attached_deposit) == attached_deposit >= 1

assert_one_yocto(attached_deposit) == attached_deposit = 1

(* Variant: the record of a registered target is written again. *)
deposit_registered_reinsert(predecessor_account_id, account_id, amount) ==
    Effect(Ok, insert(accounts, account_id, 0), total_supply,
           IF amount > 0 THEN <<Transfer(predecessor_account_id, amount)>> ELSE <<>>,
           <<Log("already_registered", "", 0)>>,
           unwrap(internal_storage_balance_of(accounts, account_id)))

(* storage_deposit, the target is already registered *)
deposit_registered(predecessor_account_id, account_id, amount) ==
    Effect(Ok, accounts, total_supply,
           IF amount > 0 THEN <<Transfer(predecessor_account_id, amount)>> ELSE <<>>,
           <<Log("already_registered", "", 0)>>,
           unwrap(internal_storage_balance_of(accounts, account_id)))

(* Variant: a payment of exactly the minimum is rejected. *)
deposit_unregistered_strict(predecessor_account_id, account_id, amount) ==
    LET min_balance == storage_balance_bounds.min
        inserted == insert(accounts, account_id, 0)
        refund == amount - min_balance
    IN  IF amount <= min_balance
        THEN Panic(InsufficientDeposit)
        ELSE Effect(Ok, inserted, total_supply,
                    IF refund > 0 THEN <<Transfer(predecessor_account_id, refund)>> ELSE <<>>,
                    <<>>,
                    unwrap(internal_storage_balance_of(inserted, account_id)))

(* Variant: the excess is sent to the registered account, not to the payer. *)
deposit_unregistered_refund_target(predecessor_account_id, account_id, amount) ==
    LET min_balance == storage_balance_bounds.min
        inserted == insert(accounts, account_id, 0)
        refund == amount - min_balance
    IN  IF amount < min_balance
        THEN Panic(InsufficientDeposit)
        ELSE Effect(Ok, inserted, total_supply,
                    IF refund > 0 THEN <<Transfer(account_id, refund)>> ELSE <<>>,
                    <<>>,
                    unwrap(internal_storage_balance_of(inserted, account_id)))

(* Variant: the excess is credited to the new record as its balance. *)
deposit_unregistered_credit(predecessor_account_id, account_id, amount) ==
    LET min_balance == storage_balance_bounds.min
        refund == amount - min_balance
        inserted == insert(accounts, account_id, refund)
    IN  IF amount < min_balance
        THEN Panic(InsufficientDeposit)
        ELSE Effect(Ok, inserted, total_supply,
                    IF refund > 0 THEN <<Transfer(predecessor_account_id, refund)>> ELSE <<>>,
                    <<>>,
                    unwrap(internal_storage_balance_of(inserted, account_id)))

(* storage_deposit, the target is not registered *)
deposit_unregistered(predecessor_account_id, account_id, amount) ==
    LET min_balance == storage_balance_bounds.min
        inserted == insert(accounts, account_id, 0)
        refund == amount - min_balance
    IN  IF amount < min_balance
        THEN Panic(InsufficientDeposit)
        ELSE Effect(Ok, inserted, total_supply,
                    IF refund > 0 THEN <<Transfer(predecessor_account_id, refund)>> ELSE <<>>,
                    <<>>,
                    unwrap(internal_storage_balance_of(inserted, account_id)))

storage_deposit(predecessor_account_id, account_id_arg, attached_deposit) ==
    LET amount == attached_deposit
        account_id == IF is_some(account_id_arg) THEN unwrap(account_id_arg)
                      ELSE predecessor_account_id
    IN  IF account_id \in DOMAIN accounts
        THEN deposit_registered(predecessor_account_id, account_id, amount)
        ELSE deposit_unregistered(predecessor_account_id, account_id, amount)

(* Variant: a request for one unit is let through. *)
storage_withdraw_above_one(predecessor_account_id, amount, attached_deposit) ==
    IF ~assert_one_yocto(attached_deposit)
    THEN Panic(MissingConfirmationPayment)
    ELSE LET storage_balance == internal_storage_balance_of(accounts, predecessor_account_id)
         IN  IF is_some(storage_balance)
             THEN IF is_some(amount) /\ unwrap(amount) > 1
                  THEN Panic(ExcessiveWithdrawal)
                  ELSE Effect(Ok, accounts, total_supply, <<>>, <<>>, unwrap(storage_balance))
             ELSE Panic(UnregisteredCaller)

(* Variant: the amount is looked at before the registration. *)
storage_withdraw_amount_first(predecessor_account_id, amount, attached_deposit) ==
    IF ~assert_one_yocto(attached_deposit)
    THEN Panic(MissingConfirmationPayment)
    ELSE LET storage_balance == internal_storage_balance_of(accounts, predecessor_account_id)
         IN  IF is_some(amount) /\ unwrap(amount) > 0
             THEN Panic(ExcessiveWithdrawal)
             ELSE IF is_some(storage_balance)
                  THEN Effect(Ok, accounts, total_supply, <<>>, <<>>, unwrap(storage_balance))
                  ELSE Panic(UnregisteredCaller)

storage_withdraw(predecessor_account_id, amount, attached_deposit) ==
    IF ~assert_one_yocto(attached_deposit)
    THEN Panic(MissingConfirmationPayment)
    ELSE LET storage_balance == internal_storage_balance_of(accounts, predecessor_account_id)
         IN  IF is_some(storage_balance)
             THEN IF is_some(amount) /\ unwrap(amount) > 0
                  THEN Panic(ExcessiveWithdrawal)
                  ELSE Effect(Ok, accounts, total_supply, <<>>, <<>>, unwrap(storage_balance))
             ELSE Panic(UnregisteredCaller)

(* Variant: the burnt balance stays in the total supply. *)
unregister_registered_no_burn(account_id, balance, force) ==
    IF balance = 0 \/ force
    THEN Effect(Ok, remove(accounts, account_id), total_supply,
                <<Transfer(account_id, storage_balance_bounds.min + 1)>>,
                <<Log("removed", account_id, balance)>>,
                Some(<<account_id, balance>>))
    ELSE Panic(NonZeroBalanceWithoutForce)

(* Variant: the force flag is not consulted. *)
unregister_registered_always(account_id, balance, force) ==
    Effect(Ok, remove(accounts, account_id), total_supply - balance,
           <<Transfer(account_id, storage_balance_bounds.min + 1)>>,
           <<Log("removed", account_id, balance)>>,
           Some(<<account_id, balance>>))

(* Variant: the confirmation payment is not handed back. *)
unregister_registered_bond_only(account_id, balance, force) ==
    IF balance = 0 \/ force
    THEN Effect(Ok, remove(accounts, account_id), total_supply - balance,
                <<Transfer(account_id, storage_balance_bounds.min)>>,
                <<Log("removed", account_id, balance)>>,
                Some(<<account_id, balance>>))
    ELSE Panic(NonZeroBalanceWithoutForce)

(* Variant: the burnt balance is assigned to the total supply. *)
unregister_registered_assign(account_id, balance, force) ==
    IF balance = 0 \/ force
    THEN Effect(Ok, remove(accounts, account_id), balance,
                <<Transfer(account_id, storage_balance_bounds.min + 1)>>,
                <<Log("removed", account_id, balance)>>,
                Some(<<account_id, balance>>))
    ELSE Panic(NonZeroBalanceWithoutForce)

(* Variant: the confirmation payment is sent back before the refusal. *)
unregister_registered_refund_refusal(account_id, balance, force) ==
    IF balance = 0 \/ force
    THEN Effect(Ok, remove(accounts, account_id), total_supply - balance,
                <<Transfer(account_id, storage_balance_bounds.min + 1)>>,
                <<Log("removed", account_id, balance)>>,
                Some(<<account_id, balance>>))
    ELSE Effect(NonZeroBalanceWithoutForce, accounts, total_supply,
                <<Transfer(account_id, 1)>>, <<>>, None)

(* Variant: the balance is burnt twice. *)
unregister_registered_double_burn(account_id, balance, force) ==
    IF balance = 0 \/ force
    THEN Effect(Ok, remove(accounts, account_id), total_supply - 2 * balance,
                <<Transfer(account_id, storage_balance_bounds.min + 1)>>,
                <<Log("removed", account_id, balance)>>,
                Some(<<account_id, balance>>))
    ELSE Panic(NonZeroBalanceWithoutForce)

(* internal_storage_unregister, the caller has an account record *)
unregister_registered(account_id, balance, force) ==
    IF balance = 0 \/ force
    THEN Effect(Ok, remove(accounts, account_id), total_supply - balance,
                <<Transfer(account_id, storage_balance_bounds.min + 1)>>,
                <<Log("removed", account_id, balance)>>,
                Some(<<account_id, balance>>))
    ELSE Panic(NonZeroBalanceWithoutForce)

(* Variant: an unknown caller is handed a bond all the same. *)
unregister_unregistered_refund(account_id) ==
    Effect(Ok, accounts, total_supply,
           <<Transfer(account_id, storage_balance_bounds.min + 1)>>,
           <<Log("not_registered", account_id, 0)>>, None)

(* internal_storage_unregister, the caller has none *)
unregister_unregistered(account_id) ==
    Effect(Ok, accounts, total_supply, <<>>, <<Log("not_registered", account_id, 0)>>, None)

internal_storage_unregister(predecessor_account_id, force_arg, attached_deposit) ==
    IF ~assert_one_yocto(attached_deposit)
    THEN Panic(MissingConfirmationPayment)
    ELSE LET account_id == predecessor_account_id
             force == IF is_some(force_arg) THEN unwrap(force_arg) ELSE FALSE
         IN  IF account_id \in DOMAIN accounts
             THEN unregister_registered(account_id, accounts[account_id], force)
             ELSE unregister_unregistered(account_id)

storage_unregister(predecessor_account_id, force_arg, attached_deposit) ==
    LET e == internal_storage_unregister(predecessor_account_id, force_arg, attached_deposit)
    IN  Effect(e.outcome, e.accounts, e.total_supply, e.promises, e.logs,
               IF e.outcome = Ok THEN is_some(e.ret) ELSE None)

----------------------------------------------------------------------------
(* Steps *)

NoCall == [op |-> "init", predecessor |-> "", account_id |-> None, attached |-> 0,
           amount |-> None, force |-> None, outcome |-> Ok, ret |-> None,
           promises |-> <<>>, logs |-> <<>>]

Call(op, predecessor, account_id, attached, amount, force, e) ==
    [op |-> op, predecessor |-> predecessor, account_id |-> account_id,
     attached |-> attached, amount |-> amount, force |-> force,
     outcome |-> e.outcome, ret |-> e.ret, promises |-> e.promises, logs |-> e.logs]

(* The transfers waiting to be executed. *)
Waiting(r) == SumOver(r, AccountIds)

Enqueue(r, promises) ==
    [a \in AccountIds |->
        r[a] + Cardinality({i \in 1 .. Len(promises) : promises[i].receiver_id = a})]

(* The runtime commits the call's writes and queues its promises. *)
Commit(e) ==
    /\ Waiting(receipts) + Len(e.promises) <= MaxReceipts
    /\ accounts' = e.accounts
    /\ total_supply' = e.total_supply
    /\ receipts' = Enqueue(receipts, e.promises)
    /\ UNCHANGED <<account_storage_usage, storage_byte_cost>>

StorageDeposit ==
    \E predecessor \in AccountIds, account_id \in Options(AccountIds),
       attached \in 0 .. (storage_balance_bounds.min + MaxExcess) :
        LET e == storage_deposit(predecessor, account_id, attached)
        IN  /\ Commit(e)
            /\ last' = Call("storage_deposit", predecessor, account_id, attached,
                            None, None, e)

StorageWithdraw ==
    \E predecessor \in AccountIds, amount \in Options(0 .. MaxAmount),
       attached \in 0 .. MaxConfirm :
        LET e == storage_withdraw(predecessor, amount, attached)
        IN  /\ Commit(e)
            /\ last' = Call("storage_withdraw", predecessor, None, attached,
                            amount, None, e)

StorageUnregister ==
    \E predecessor \in AccountIds, force \in Options(BOOLEAN),
       attached \in 0 .. MaxConfirm :
        LET e == storage_unregister(predecessor, force, attached)
        IN  /\ Commit(e)
            /\ last' = Call("storage_unregister", predecessor, None, attached,
                            None, force, e)

StorageBalanceOf ==
    \E account_id \in AccountIds :
        /\ last' = Call("storage_balance_of", "", Some(account_id), 0, None, None,
                        Effect(Ok, accounts, total_supply, <<>>, <<>>,
                               storage_balance_of(account_id)))
        /\ UNCHANGED <<accounts, total_supply, account_storage_usage,
                       storage_byte_cost, receipts>>

StorageBalanceBounds ==
    /\ last' = Call("storage_balance_bounds", "", None, 0, None, None,
                    Effect(Ok, accounts, total_supply, <<>>, <<>>,
                           storage_balance_bounds))
    /\ UNCHANGED <<accounts, total_supply, account_storage_usage,
                   storage_byte_cost, receipts>>

(* Token-transfer logic outside the storage ledger moves balance between *)
(* two registered accounts.                                               *)
ExternalTransfer ==
    \E sender \in DOMAIN accounts, receiver \in DOMAIN accounts, amount \in 1 .. MaxBalance :
        /\ sender # receiver
        /\ amount <= accounts[sender]
        /\ accounts[receiver] + amount <= MaxBalance
        /\ accounts' = [accounts EXCEPT ![sender] = @ - amount, ![receiver] = @ + amount]
        /\ last' = [NoCall EXCEPT !.op = "ft_transfer"]
        /\ UNCHANGED <<total_supply, account_storage_usage, storage_byte_cost, receipts>>

(* The protocol changes the price of a byte of storage. *)
BytePriceChange ==
    \E price \in 1 .. MaxPrice :
        /\ price # storage_byte_cost
        /\ storage_byte_cost' = price
        /\ last' = [NoCall EXCEPT !.op = "byte_price_change"]
        /\ UNCHANGED <<accounts, total_supply, account_storage_usage, receipts>>

(* Variant: a failed refund puts the receiver's record back. *)
ExecuteReceiptCompensating ==
    \E receiver \in AccountIds, succeeded \in BOOLEAN :
        /\ receipts[receiver] > 0
        /\ receipts' = [receipts EXCEPT ![receiver] = @ - 1]
        /\ last' = [NoCall EXCEPT !.op = "receipt", !.predecessor = receiver,
                        !.outcome = IF succeeded THEN Ok ELSE "TransferFailed"]
        /\ accounts' = IF succeeded \/ receiver \in DOMAIN accounts THEN accounts
                       ELSE insert(accounts, receiver, 0)
        /\ UNCHANGED <<total_supply, account_storage_usage, storage_byte_cost>>

(* The runtime executes a scheduled transfer.  Whether it succeeds or    *)
(* fails, nothing is reported back to the contract.                       *)
ExecuteReceipt ==
    \E receiver \in AccountIds, succeeded \in BOOLEAN :
        /\ receipts[receiver] > 0
        /\ receipts' = [receipts EXCEPT ![receiver] = @ - 1]
        /\ last' = [NoCall EXCEPT !.op = "receipt", !.predecessor = receiver,
                        !.outcome = IF succeeded THEN Ok ELSE "TransferFailed"]
        /\ UNCHANGED <<accounts, total_supply, account_storage_usage, storage_byte_cost>>

LedgerInit ==
    /\ \E registered \in SUBSET AccountIds :
           accounts \in [registered -> 0 .. MaxBalance]
    /\ total_supply = SumBalances(accounts)
    /\ account_storage_usage = StorageUsage
    /\ storage_byte_cost \in 1 .. MaxPrice
    /\ receipts = [a \in AccountIds |-> 0]
    /\ last = NoCall

RECURSIVE SumAmounts(_)
SumAmounts(promises) ==
    IF promises = <<>> THEN 0
    ELSE promises[1].amount + SumAmounts(Tail(promises))

----------------------------------------------------------------------------
(* The non-fungible-token contract: nft_mint *)

(* 0.01 NEAR in the source; here in the units of the byte price. *)
BASE_STORAGE_COST == 1

(* Balance is an unsigned integer of BalanceBits bits; an account holds   *)
(* far less than the largest Balance.                                     *)
BalanceModulus == 2 ^ BalanceBits

owner_id == "catch"

Callers == {owner_id, "mallory"}

(* The account ids of the pattern nft_mint accepts as receivers. *)
CatchUsers == {"ann.catch"}

ReceiverIds == CatchUsers \cup {"eve"}

TokenIds == {"t1", "t2"}

TokenMetadatas == {[expires_at |-> None], [expires_at |-> Some(1)]}

NotOwner == "NotOwner"

InvalidReceiver == "InvalidReceiver"

TokenAlreadyExists == "Token Already exists"

SubtractOverflow == "attempt to subtract with overflow"

(* The host refuses a transfer of more than the contract holds. *)
BalanceExceeded == "BalanceExceeded"

(* env::storage_usage(), as far as nft_mint changes it: one entry for    *)
(* each token, each token's metadata and each owner's set.                *)
storage_usage(by_id, metadata_by_id, per_owner) ==
    ( Cardinality(DOMAIN by_id) + Cardinality(DOMAIN metadata_by_id)
      + Cardinality(DOMAIN per_owner) ) * EntryBytes

assert_owner(predecessor_account_id) == predecessor_account_id = owner_id

assert_valid_catch_user_account_pattern(account_id) == account_id \in CatchUsers

internal_add_token_to_owner(per_owner, account_id, token_id) ==
    [o \in DOMAIN per_owner \cup {account_id} |->
        IF o = account_id
        THEN (IF o \in DOMAIN per_owner THEN per_owner[o] ELSE {}) \cup {token_id}
        ELSE per_owner[o]]

(* a - b on Balance: a build with overflow checks panics (None) when b     *)
(* is larger than a, a build without them wraps around.                    *)
balance_sub(a, b, checked) ==
    IF a >= b THEN Some(a - b)
    ELSE IF checked THEN None
    ELSE Some(a - b + BalanceModulus)

Token(token_id, token_metadata) ==
    [token_id |-> token_id, copies_minted |-> 1, max_copies |-> 1,
     expires_at |-> token_metadata.expires_at]

MintPromise(receiver, amount, create_account) ==
    [receiver_id |-> receiver, amount |-> amount, create_account |-> create_account]

MintEffect(outcome, by_id, metadata_by_id, per_owner, promises) ==
    [outcome |-> outcome, tokens_by_id |-> by_id, token_metadata_by_id |-> metadata_by_id,
     tokens_per_owner |-> per_owner, promises |-> promises]

MintPanic(kind) ==
    MintEffect(kind, tokens_by_id, token_metadata_by_id, tokens_per_owner, <<>>)

(* Variant: the insertion is not checked. *)
token_exists_unchecked(by_id, token_id) == FALSE

(* tokens_by_id.insert(..) returned a previous token. *)
token_exists(by_id, token_id) == token_id \in DOMAIN by_id

(* Variant: the account-creation deposit is left out of the cost. *)
mint_cost_storage_only(storage_used) == storage_byte_cost * storage_used

mint_cost(storage_used) == storage_byte_cost * storage_used + BASE_STORAGE_COST

(* nft_mint past its two assertions.  balance is what the contract holds  *)
(* during the call, the attached deposit included; each transfer is taken *)
(* from it when it is scheduled.                                           *)
mint(receiver_id, token_id, token_metadata, attached_deposit, balance) ==
    LET initial_storage ==
            storage_usage(tokens_by_id, token_metadata_by_id, tokens_per_owner)
        by_id == insert(tokens_by_id, token_id, Token(token_id, token_metadata))
        metadata_by_id == insert(token_metadata_by_id, token_id, token_metadata)
        per_owner == internal_add_token_to_owner(tokens_per_owner, receiver_id, token_id)
        storage_used == storage_usage(by_id, metadata_by_id, per_owner) - initial_storage
        refund == balance_sub(attached_deposit, mint_cost(storage_used), overflow_checks)
    IN  IF balance < BASE_STORAGE_COST THEN MintPanic(BalanceExceeded)
        ELSE IF token_exists(tokens_by_id, token_id) THEN MintPanic(TokenAlreadyExists)
        ELSE IF refund = None THEN MintPanic(SubtractOverflow)
        ELSE IF balance - BASE_STORAGE_COST < unwrap(refund) THEN MintPanic(BalanceExceeded)
        ELSE MintEffect(Ok, by_id, metadata_by_id, per_owner,
                        << MintPromise(receiver_id, BASE_STORAGE_COST, TRUE),
                           MintPromise(receiver_id, unwrap(refund), FALSE) >>)

nft_mint(predecessor_account_id, receiver_id, token_id, token_metadata, attached_deposit) ==
    IF ~assert_owner(predecessor_account_id) THEN MintPanic(NotOwner)
    ELSE IF ~assert_valid_catch_user_account_pattern(receiver_id)
    THEN MintPanic(InvalidReceiver)
    ELSE mint(receiver_id, token_id, token_metadata, attached_deposit,
              ContractBalance + attached_deposit)

NoMintCall ==
    [op |-> "init", predecessor |-> "", receiver_id |-> "", token_id |-> "",
     token_metadata |-> [expires_at |-> None], attached |-> 0, outcome |-> Ok,
     promises |-> <<>>]

(* The nft contract after construction. *)
NftNew ==
    /\ tokens_by_id = <<>>
    /\ token_metadata_by_id = <<>>
    /\ tokens_per_owner = <<>>
    /\ overflow_checks = TRUE
    /\ last_mint = NoMintCall

(* No call to the nft contract. *)
NoMint ==
    UNCHANGED <<tokens_by_id, token_metadata_by_id, tokens_per_owner,
                overflow_checks, last_mint>>

(* No call to the ledger. *)
NoLedger ==
    UNCHANGED <<accounts, total_supply, account_storage_usage, receipts, last, bond, net>>

NftMint ==
    \E predecessor \in Callers, receiver_id \in ReceiverIds, token_id \in TokenIds,
       token_metadata \in TokenMetadatas, attached \in 0 .. MaxAttached :
        LET e == nft_mint(predecessor, receiver_id, token_id, token_metadata, attached)
        IN  /\ tokens_by_id' = e.tokens_by_id
            /\ token_metadata_by_id' = e.token_metadata_by_id
            /\ tokens_per_owner' = e.tokens_per_owner
            /\ last_mint' =
                   [op |-> "nft_mint", predecessor |-> predecessor,
                    receiver_id |-> receiver_id, token_id |-> token_id,
                    token_metadata |-> token_metadata, attached |-> attached,
                    outcome |-> e.outcome, promises |-> e.promises]
            /\ UNCHANGED <<overflow_checks, storage_byte_cost>>

(* The protocol changes the price of a byte of storage. *)
NftBytePriceChange ==
    \E price \in 1 .. MaxPrice :
        /\ price # storage_byte_cost
        /\ storage_byte_cost' = price
        /\ last_mint' = [NoMintCall EXCEPT !.op = "byte_price_change"]
        /\ UNCHANGED <<tokens_by_id, token_metadata_by_id, tokens_per_owner,
                       overflow_checks>>

(* The attached deposit of a call that returns stays with the contract;   *)
(* the runtime hands the deposit of a call that panics back.              *)
Kept(call) ==
    IF call.op \in {"storage_deposit", "storage_withdraw", "storage_unregister"}
       /\ call.outcome = Ok
    THEN call.attached
    ELSE 0

(* The books are not kept. *)
NoBooks == UNCHANGED <<bond, net>>

(* The books after a step: the new account's bond is what its            *)
(* registration left with the contract.                                   *)
Books ==
    LET kept == Kept(last') - SumAmounts(last'.promises)
    IN  /\ net' = net + kept
        /\ net' # net => net' \in -MaxNet .. MaxNet
        /\ bond' = [a \in DOMAIN accounts' |->
                       IF a \in DOMAIN accounts THEN bond[a] ELSE kept]

Init ==
    /\ LedgerInit
    /\ bond = <<>>
    /\ net = 0
    /\ NftNew

Next ==
    \/ StorageDeposit /\ NoBooks /\ NoMint
    \/ StorageWithdraw /\ NoBooks /\ NoMint
    \/ StorageUnregister /\ NoBooks /\ NoMint
    \/ StorageBalanceOf /\ NoBooks /\ NoMint
    \/ StorageBalanceBounds /\ NoBooks /\ NoMint
    \/ ExternalTransfer /\ NoBooks /\ NoMint
    \/ BytePriceChange /\ NoBooks /\ NoMint
    \/ ExecuteReceipt /\ NoBooks /\ NoMint

Spec == Init /\ [][Next]_vars

(* The ledger with the books kept.  The accounts of the first state were  *)
(* registered under its byte price.                                       *)
InitBooks ==
    /\ LedgerInit
    /\ bond = [a \in DOMAIN accounts |-> account_storage_usage * storage_byte_cost]
    /\ net = SumOver(bond, DOMAIN bond)
    /\ NftNew

NextBooks ==
    \/ StorageDeposit /\ Books /\ NoMint
    \/ StorageWithdraw /\ Books /\ NoMint
    \/ StorageUnregister /\ Books /\ NoMint
    \/ StorageBalanceOf /\ Books /\ NoMint
    \/ StorageBalanceBounds /\ Books /\ NoMint
    \/ ExternalTransfer /\ Books /\ NoMint
    \/ BytePriceChange /\ Books /\ NoMint
    \/ ExecuteReceipt /\ Books /\ NoMint

SpecBooks == InitBooks /\ [][NextBooks]_vars

(* The nft contract alone, built with or without overflow checks. *)
InitNft ==
    /\ accounts = <<>>
    /\ total_supply = 0
    /\ account_storage_usage = StorageUsage
    /\ storage_byte_cost \in 1 .. MaxPrice
    /\ receipts = [a \in AccountIds |-> 0]
    /\ last = NoCall
    /\ bond = <<>>
    /\ net = 0
    /\ tokens_by_id = <<>>
    /\ token_metadata_by_id = <<>>
    /\ tokens_per_owner = <<>>
    /\ overflow_checks \in BOOLEAN
    /\ last_mint = NoMintCall

NextNft ==
    \/ NftMint /\ NoLedger
    \/ NftBytePriceChange /\ NoLedger

SpecNft == InitNft /\ [][NextNft]_vars

----------------------------------------------------------------------------
(* Properties *)

(* The account a storage_deposit call is about. *)
Target(call) ==
    IF is_some(call.account_id) THEN unwrap(call.account_id) ELSE call.predecessor

(* The storage balance of every registered account. *)
Pinned == [total |-> storage_balance_bounds.min, available |-> 0]

(* The step leaves the ledger alone and schedules no transfer. *)
NothingHappens ==
    /\ accounts' = accounts
    /\ total_supply' = total_supply
    /\ receipts' = receipts
    /\ last'.promises = <<>>

(* C1. Bounds pinning: in every reachable state storage_balance_of(id) is  *)
(* None for an unregistered id and {total: bounds.min, available: 0} for a *)
(* registered one, whatever its token balance; a storage_balance_of call   *)
(* returns exactly that.                                                   *)
C1_BoundsPinning ==
    /\ \A id \in AccountIds :
          storage_balance_of(id) = IF id \in DOMAIN accounts THEN Some(Pinned) ELSE None
    /\ last.op = "storage_balance_of" =>
          LET id == unwrap(last.account_id)
          IN  last.ret = IF id \in DOMAIN accounts THEN Some(Pinned) ELSE None

C1_Witness ==
    /\ last.op = "storage_balance_of"
    /\ unwrap(last.account_id) \in DOMAIN accounts
    /\ accounts[unwrap(last.account_id)] > 0
    /\ last.ret = Some(Pinned)
    /\ \E id \in AccountIds : id \notin DOMAIN accounts

(* C2. Supply conservation: from a ledger whose total supply is the sum of *)
(* the registered balances, every committed call leaves the total supply   *)
(* equal to the sum of the balances of the accounts still registered.      *)
C2_SupplyConservation == total_supply = SumBalances(accounts)

C2_Witness ==
    /\ last.op = "storage_unregister"
    /\ last.outcome = Ok
    /\ last.logs = <<Log("removed", last.predecessor, MaxBalance)>>
    /\ DOMAIN accounts # {}
    /\ total_supply > 0

(* C3. A registered caller with a positive balance who calls               *)
(* storage_unregister with the confirmation payment and force false or     *)
(* absent gets NonZeroBalanceWithoutForce: it stays registered with its    *)
(* balance, the total supply is unchanged and no transfer is scheduled.    *)
C3_NoSilentBurn ==
    [][ ( /\ last'.op = "storage_unregister"
          /\ last'.attached = 1
          /\ last'.predecessor \in DOMAIN accounts
          /\ accounts[last'.predecessor] > 0
          /\ last'.force \in {None, Some(FALSE)} )
        => ( /\ last'.outcome = NonZeroBalanceWithoutForce
             /\ NothingHappens
             /\ last'.predecessor \in DOMAIN accounts'
             /\ accounts'[last'.predecessor] = accounts[last'.predecessor] ) ]_vars

C3_Witness ==
    /\ last.op = "storage_unregister"
    /\ last.outcome = NonZeroBalanceWithoutForce
    /\ last.force = None
    /\ last.predecessor \in DOMAIN accounts
    /\ accounts[last.predecessor] = MaxBalance

(* C4. A registered caller with balance B who calls storage_unregister     *)
(* with the confirmation payment and either B = 0 or force = true gets     *)
(* true: its record is removed, the total supply drops by exactly B and    *)
(* exactly one transfer of bounds.min + 1 to the caller is scheduled.      *)
C4_Unregistration ==
    [][ ( /\ last'.op = "storage_unregister"
          /\ last'.attached = 1
          /\ last'.predecessor \in DOMAIN accounts
          /\ (accounts[last'.predecessor] = 0 \/ last'.force = Some(TRUE)) )
        => ( /\ last'.outcome = Ok
             /\ last'.ret = TRUE
             /\ accounts' = remove(accounts, last'.predecessor)
             /\ last'.predecessor \notin DOMAIN accounts'
             /\ total_supply' = total_supply - accounts[last'.predecessor]
             /\ last'.promises =
                   <<Transfer(last'.predecessor, storage_balance_bounds.min + 1)>>
             /\ receipts' = Enqueue(receipts, last'.promises) ) ]_vars

C4_Witness ==
    /\ last.op = "storage_unregister"
    /\ last.outcome = Ok
    /\ last.ret = TRUE
    /\ last.force = Some(TRUE)
    /\ last.logs = <<Log("removed", last.predecessor, 1)>>
    /\ last.predecessor \notin DOMAIN accounts
    /\ receipts[last.predecessor] = 1

(* C5. storage_deposit for an unregistered target fails with               *)
(* InsufficientDeposit when the payment is below bounds.min, creating no   *)
(* record and scheduling no transfer; with a payment of exactly bounds.min *)
(* it creates the record with balance 0, returns {min, 0} and schedules no *)
(* refund.                                                                 *)
C5_MinimumEnforcement ==
    [][ ( /\ last'.op = "storage_deposit"
          /\ Target(last') \notin DOMAIN accounts )
        => /\ last'.attached < storage_balance_bounds.min
              => ( /\ last'.outcome = InsufficientDeposit
                   /\ NothingHappens )
           /\ last'.attached = storage_balance_bounds.min
              => ( /\ last'.outcome = Ok
                   /\ accounts' = insert(accounts, Target(last'), 0)
                   /\ accounts'[Target(last')] = 0
                   /\ last'.ret = Pinned
                   /\ last'.promises = <<>>
                   /\ receipts' = receipts ) ]_vars

C5_Witness ==
    /\ last.op = "storage_deposit"
    /\ last.outcome = InsufficientDeposit
    /\ last.attached = storage_balance_bounds.min - 1
    /\ last.attached > 0
    /\ Target(last) \notin DOMAIN accounts

(* C6. storage_deposit for an unregistered target with a payment above     *)
(* bounds.min creates the record with balance 0, returns {min, 0} and      *)
(* schedules exactly one transfer, of payment - min, to the caller, also   *)
(* when the target is another account.                                     *)
C6_ExcessRefund ==
    [][ ( /\ last'.op = "storage_deposit"
          /\ Target(last') \notin DOMAIN accounts
          /\ last'.attached > storage_balance_bounds.min )
        => ( /\ last'.outcome = Ok
             /\ accounts' = insert(accounts, Target(last'), 0)
             /\ accounts'[Target(last')] = 0
             /\ total_supply' = total_supply
             /\ last'.ret = Pinned
             /\ last'.promises =
                   <<Transfer(last'.predecessor,
                              last'.attached - storage_balance_bounds.min)>>
             /\ receipts' = Enqueue(receipts, last'.promises) ) ]_vars

C6_Witness ==
    /\ last.op = "storage_deposit"
    /\ last.outcome = Ok
    /\ is_some(last.account_id)
    /\ Target(last) # last.predecessor
    /\ last.attached = storage_balance_bounds.min + MaxExcess
    /\ last.promises = <<Transfer(last.predecessor, MaxExcess)>>
    /\ accounts[Target(last)] = 0

(* C7. storage_deposit on a registered target leaves its balance, every    *)
(* other record and the total supply unchanged, refunds the whole payment  *)
(* to the caller and returns {min, 0}; so a second deposit on the same     *)
(* identifier leaves the ledger as the first one left it.                  *)
C7_IdempotentRedeposit ==
    [][ /\ ( /\ last'.op = "storage_deposit"
             /\ Target(last') \in DOMAIN accounts )
           => ( /\ last'.outcome = Ok
                /\ accounts' = accounts
                /\ total_supply' = total_supply
                /\ last'.ret = Pinned
                /\ last'.promises =
                      IF last'.attached > 0
                      THEN <<Transfer(last'.predecessor, last'.attached)>>
                      ELSE <<>>
                /\ receipts' = Enqueue(receipts, last'.promises) )
        /\ ( /\ last.op = "storage_deposit"
             /\ last.outcome = Ok
             /\ last'.op = "storage_deposit"
             /\ Target(last') = Target(last) )
           => ( /\ last'.outcome = Ok
                /\ accounts' = accounts
                /\ total_supply' = total_supply ) ]_vars

C7_Witness ==
    /\ last.op = "storage_deposit"
    /\ last.outcome = Ok
    /\ last.logs = <<Log("already_registered", "", 0)>>
    /\ accounts[Target(last)] > 0
    /\ Target(last) # last.predecessor
    /\ last.attached > 0
    /\ last.promises = <<Transfer(last.predecessor, last.attached)>>

(* C8. With the confirmation payment attached: for a registered caller     *)
(* storage_withdraw(None) and storage_withdraw(Some(0)) return {min, 0}    *)
(* and change nothing, and storage_withdraw(Some(n)) with n > 0 fails with *)
(* ExcessiveWithdrawal; for an unregistered caller the call fails with     *)
(* UnregisteredCaller.  No case changes the ledger or schedules a          *)
(* transfer.                                                               *)
C8_Withdraw ==
    [][ ( /\ last'.op = "storage_withdraw"
          /\ last'.attached = 1 )
        => /\ NothingHappens
           /\ last'.outcome =
                 IF last'.predecessor \notin DOMAIN accounts THEN UnregisteredCaller
                 ELSE IF is_some(last'.amount) /\ unwrap(last'.amount) > 0
                      THEN ExcessiveWithdrawal
                      ELSE Ok
           /\ last'.outcome = Ok => last'.ret = Pinned ]_vars

C8_Witness ==
    /\ last.op = "storage_withdraw"
    /\ last.outcome = ExcessiveWithdrawal
    /\ last.amount = Some(1)
    /\ last.predecessor \in DOMAIN accounts
    /\ accounts[last.predecessor] > 0

(* C9, as stated. storage_unregister called by an unregistered identifier, *)
(* with any force value, returns false, changes no record and no total     *)
(* supply and schedules no transfer.                                       *)
C9_AsStated ==
    [][ ( /\ last'.op = "storage_unregister"
          /\ last'.predecessor \notin DOMAIN accounts )
        => ( /\ last'.outcome = Ok
             /\ last'.ret = FALSE
             /\ NothingHappens ) ]_vars

(* C9, amended. storage_unregister called with the confirmation payment by *)
(* an unregistered identifier, with any force value, returns false,        *)
(* changes no record and no total supply and schedules no transfer.        *)
C9_UnknownAccount ==
    [][ ( /\ last'.op = "storage_unregister"
          /\ last'.attached = 1
          /\ last'.predecessor \notin DOMAIN accounts )
        => ( /\ last'.outcome = Ok
             /\ last'.ret = FALSE
             /\ NothingHappens ) ]_vars

C9_Witness ==
    /\ last.op = "storage_unregister"
    /\ last.attached = 1
    /\ last.predecessor \notin DOMAIN accounts
    /\ last.outcome = Ok
    /\ last.ret = FALSE
    /\ last.force = Some(TRUE)
    /\ last.logs = <<Log("not_registered", last.predecessor, 0)>>

(* C10. storage_withdraw and storage_unregister called with a payment      *)
(* other than exactly one unit fail with MissingConfirmationPayment for    *)
(* every caller and every argument, leaving records and total supply       *)
(* unchanged and scheduling no transfer.                                   *)
C10_ConfirmationPayment ==
    [][ ( /\ last'.op \in {"storage_withdraw", "storage_unregister"}
          /\ last'.attached # 1 )
        => ( /\ last'.outcome = MissingConfirmationPayment
             /\ NothingHappens ) ]_vars

C10_Witness ==
    /\ last.op = "storage_unregister"
    /\ last.attached > 1
    /\ last.force = Some(TRUE)
    /\ last.outcome = MissingConfirmationPayment
    /\ last.predecessor \in DOMAIN accounts
    /\ accounts[last.predecessor] > 0

(* C11. An identifier becomes registered only through a successful         *)
(* storage_deposit for it, and then with balance 0; it becomes             *)
(* unregistered only through a storage_unregister it calls itself, with    *)
(* balance 0 or force = true; a registration after a burn starts at 0      *)
(* again.                                                                  *)
C11_StateMachine ==
    [][ \A id \in AccountIds :
          /\ (id \notin DOMAIN accounts /\ id \in DOMAIN accounts')
             => ( /\ last'.op = "storage_deposit"
                  /\ last'.outcome = Ok
                  /\ Target(last') = id
                  /\ accounts'[id] = 0 )
          /\ (id \in DOMAIN accounts /\ id \notin DOMAIN accounts')
             => ( /\ last'.op = "storage_unregister"
                  /\ last'.outcome = Ok
                  /\ last'.attached = 1
                  /\ last'.predecessor = id
                  /\ (accounts[id] = 0 \/ last'.force = Some(TRUE)) )
          /\ ( /\ last.op = "storage_unregister"
               /\ last.outcome = Ok
               /\ last.ret = TRUE
               /\ last'.op = "storage_deposit"
               /\ last'.outcome = Ok
               /\ Target(last') = last.predecessor )
             => ( /\ id = last.predecessor => accounts'[id] = 0
                  /\ total_supply' = total_supply ) ]_vars

C11_Witness ==
    /\ last.op = "storage_deposit"
    /\ last.outcome = Ok
    /\ last.logs = <<>>
    /\ Target(last) # last.predecessor
    /\ accounts[Target(last)] = 0
    /\ receipts[Target(last)] = 1
    /\ total_supply > 0

(* The one record a storage call may write: the target of a deposit, the   *)
(* caller of an unregistration.                                            *)
Written(call) ==
    IF call.op = "storage_deposit" THEN {Target(call)}
    ELSE IF call.op = "storage_unregister" THEN {call.predecessor}
    ELSE {}

(* C12. The total supply never grows; storage_deposit, storage_withdraw,   *)
(* the views and every failing call leave it unchanged; it drops only in a *)
(* successful storage_unregister, by exactly the balance of the removed    *)
(* account; and a storage call changes no record but the one it registers  *)
(* or removes.                                                             *)
C12_SupplyMovesOnlyByBurning ==
    [][ /\ total_supply' <= total_supply
        /\ ( \/ last'.op # "storage_unregister"
             \/ last'.outcome # Ok
             \/ last'.ret # TRUE )
           => total_supply' = total_supply
        /\ ( /\ last'.op = "storage_unregister"
             /\ last'.outcome = Ok
             /\ last'.ret = TRUE )
           => ( /\ last'.predecessor \in DOMAIN accounts
                /\ last'.predecessor \notin DOMAIN accounts'
                /\ total_supply' = total_supply - accounts[last'.predecessor] )
        /\ last'.op \in {"storage_deposit", "storage_withdraw", "storage_unregister",
                         "storage_balance_of", "storage_balance_bounds"}
           => \A id \in AccountIds \ Written(last') :
                 /\ id \in DOMAIN accounts <=> id \in DOMAIN accounts'
                 /\ id \in DOMAIN accounts => accounts'[id] = accounts[id] ]_vars

C12_Witness ==
    /\ last.op = "storage_unregister"
    /\ last.outcome = Ok
    /\ last.force = Some(TRUE)
    /\ last.logs = <<Log("removed", last.predecessor, 1)>>
    /\ \E other \in DOMAIN accounts :
          /\ accounts[other] = MaxBalance
          /\ total_supply = MaxBalance

(* A call schedules at most one transfer, and none when it aborts. *)
OneTransferAtMost(e) ==
    /\ Len(e.promises) <= 1
    /\ e.outcome # Ok => e.promises = <<>>

(* C13. Every execution of storage_deposit, storage_withdraw and           *)
(* storage_unregister schedules at most one transfer, and an execution     *)
(* that aborts schedules none: of the call just made, and of every call    *)
(* that can be made next.                                                  *)
C13_AtMostOneTransfer ==
    /\ OneTransferAtMost(last)
    /\ \A predecessor \in AccountIds :
          /\ \A account_id \in Options(AccountIds),
                attached \in 0 .. (storage_balance_bounds.min + MaxExcess) :
                OneTransferAtMost(storage_deposit(predecessor, account_id, attached))
          /\ \A amount \in Options(0 .. MaxAmount), attached \in 0 .. MaxConfirm :
                OneTransferAtMost(storage_withdraw(predecessor, amount, attached))
          /\ \A force \in Options(BOOLEAN), attached \in 0 .. MaxConfirm :
                OneTransferAtMost(storage_unregister(predecessor, force, attached))

C13_Witness ==
    /\ last.op = "storage_unregister"
    /\ last.attached = 1
    /\ last.force = Some(FALSE)
    /\ last.outcome = NonZeroBalanceWithoutForce
    /\ last.promises = <<>>
    /\ Waiting(receipts) = 0

(* C14. A refund is queued only by a call that has committed, together     *)
(* with that call's ledger write; executing it, successfully or not,       *)
(* takes it off the queue for good and changes no record and no total      *)
(* supply, so an account removed by storage_unregister stays removed when  *)
(* its refund fails.                                                       *)
C14_FireAndForget ==
    [][ /\ Waiting(receipts') > Waiting(receipts)
           => ( /\ last'.op \in {"storage_deposit", "storage_unregister"}
                /\ last'.outcome = Ok
                /\ receipts' = Enqueue(receipts, last'.promises)
                /\ last'.op = "storage_deposit" => Target(last') \in DOMAIN accounts'
                /\ last'.op = "storage_unregister"
                      => last'.predecessor \notin DOMAIN accounts' )
        /\ last'.op = "receipt"
           => ( /\ accounts' = accounts
                /\ total_supply' = total_supply
                /\ receipts[last'.predecessor] > 0
                /\ receipts' = [receipts EXCEPT ![last'.predecessor] = @ - 1] )
        /\ last'.op # "receipt" => \A a \in AccountIds : receipts'[a] >= receipts[a] ]_vars

C14_Witness ==
    /\ last.op = "receipt"
    /\ last.outcome = "TransferFailed"
    /\ last.predecessor \notin DOMAIN accounts
    /\ Waiting(receipts) = 0
    /\ total_supply > 0

(* Another call is made between a commit and the transfer it scheduled. *)
C14_Interleaved ==
    /\ last.op = "storage_withdraw"
    /\ last.outcome = Ok
    /\ Waiting(receipts) > 0

(* The bond under the byte price of the current state. *)
CurrentBond == account_storage_usage * storage_byte_cost

(* C15. storage_balance_bounds always returns min = max =                  *)
(* account_storage_usage x the current byte price, and whatever the price  *)
(* was before, the bounds and the balance returned, the minimum a deposit  *)
(* is held to and the refund of an unregistration are those of the current *)
(* price.                                                                  *)
C15_BoundsFlatAndFresh ==
    /\ storage_balance_bounds = [min |-> CurrentBond, max |-> Some(CurrentBond)]
    /\ last.op = "storage_balance_bounds"
       => last.ret = [min |-> CurrentBond, max |-> Some(CurrentBond)]
    /\ (last.op = "storage_balance_of" /\ is_some(last.ret))
       => unwrap(last.ret) = [total |-> CurrentBond, available |-> 0]
    /\ (last.op = "storage_deposit" /\ last.outcome = InsufficientDeposit)
       => last.attached < CurrentBond
    /\ (last.op = "storage_deposit" /\ last.outcome = Ok)
       => last.ret = [total |-> CurrentBond, available |-> 0]
    /\ (last.op = "storage_deposit" /\ last.outcome = Ok /\ last.logs = <<>>)
       => /\ last.attached >= CurrentBond
          /\ last.promises = IF last.attached > CurrentBond
                             THEN <<Transfer(last.predecessor, last.attached - CurrentBond)>>
                             ELSE <<>>
    /\ (last.op = "storage_unregister" /\ last.outcome = Ok /\ last.ret = TRUE)
       => last.promises = <<Transfer(last.predecessor, CurrentBond + 1)>>

C15_Witness ==
    /\ storage_byte_cost = MaxPrice
    /\ last.op = "storage_unregister"
    /\ last.outcome = Ok
    /\ last.ret = TRUE
    /\ last.promises = <<Transfer(last.predecessor, StorageUsage * MaxPrice + 1)>>

(* C17. storage_withdraw checks the confirmation payment, then the         *)
(* registration, then the amount; storage_unregister checks the            *)
(* confirmation payment before it looks the caller up, so an unregistered  *)
(* caller gets false exactly when the payment is attached and an abort     *)
(* otherwise.                                                              *)
C17_ErrorPrecedence ==
    [][ /\ last'.op = "storage_withdraw"
           => last'.outcome =
                 IF last'.attached # 1 THEN MissingConfirmationPayment
                 ELSE IF last'.predecessor \notin DOMAIN accounts THEN UnregisteredCaller
                 ELSE IF is_some(last'.amount) /\ unwrap(last'.amount) > 0
                      THEN ExcessiveWithdrawal
                 ELSE Ok
        /\ last'.op = "storage_unregister"
           => /\ last'.attached # 1 => last'.outcome = MissingConfirmationPayment
              /\ last'.predecessor \notin DOMAIN accounts
                 => IF last'.attached = 1
                    THEN last'.outcome = Ok /\ last'.ret = FALSE
                    ELSE last'.outcome = MissingConfirmationPayment /\ last'.ret = None ]_vars

C17_Witness ==
    /\ last.op = "storage_withdraw"
    /\ last.attached = 1
    /\ last.predecessor \notin DOMAIN accounts
    /\ last.amount = Some(1)
    /\ last.outcome = UnregisteredCaller

(* C18. In every reachable state each registered balance is at most the    *)
(* total supply, so total_supply -= balance in storage_unregister never    *)
(* goes below zero, whatever registrations, balance-preserving transfers   *)
(* and forced unregistrations came before.                                 *)
C18_NoUnderflowOnBurn ==
    /\ total_supply >= 0
    /\ \A id \in DOMAIN accounts :
          /\ accounts[id] >= 0
          /\ accounts[id] <= total_supply
          /\ storage_unregister(id, Some(TRUE), 1).total_supply >= 0

C18_Witness ==
    /\ last.op = "storage_unregister"
    /\ last.outcome = Ok
    /\ last.force = Some(TRUE)
    /\ last.logs = <<Log("removed", last.predecessor, MaxBalance)>>
    /\ DOMAIN accounts = {}
    /\ total_supply = 0

(* C16. Over committed storage calls and byte-price changes the transfers  *)
(* the ledger has scheduled never add up to more than the payments it      *)
(* kept, and the refund of an unregistration, less the one-unit            *)
(* confirmation payment, is never more than the bond kept when the account *)
(* was registered.                                                         *)
C16_Solvency ==
    [][ /\ net' >= 0
        /\ ( /\ last'.op = "storage_unregister"
             /\ last'.outcome = Ok
             /\ last'.ret = TRUE )
           => SumAmounts(last'.promises) - 1 <= bond[last'.predecessor] ]_vars
(* What a step wrote to the collections of the nft contract. *)
MintUnchanged == UNCHANGED <<tokens_by_id, token_metadata_by_id, tokens_per_owner>>

(* The storage bytes a step added. *)
MintBytes ==
    storage_usage(tokens_by_id', token_metadata_by_id', tokens_per_owner')
    - storage_usage(tokens_by_id, token_metadata_by_id, tokens_per_owner)

C20_MintRefund ==
    [][ last_mint'.op = "nft_mint" =>
          LET call == last_mint'
              storage_cost == MintBytes * storage_byte_cost
              cost == storage_cost + BASE_STORAGE_COST
          IN  /\ ( call.outcome = Ok =>
                     /\ call.attached >= cost
                     /\ Len(call.promises) = 2
                     /\ call.promises[2] =
                            MintPromise(call.receiver_id, call.attached - cost, FALSE)
                     /\ call.attached - SumAmounts(call.promises) = storage_cost )
              /\ ( call.outcome # Ok => MintUnchanged /\ call.promises = <<>> )
              /\ \A i \in 1 .. Len(call.promises) :
                    call.promises[i].amount <= call.attached ]_vars

(* A build without overflow checks: the second token is minted to an       *)
(* owner who holds the first, at the highest price, and part of the        *)
(* deposit is refunded.                                                    *)
C20_Witness ==
    /\ ~overflow_checks
    /\ last_mint.op = "nft_mint"
    /\ last_mint.outcome = Ok
    /\ storage_byte_cost = MaxPrice
    /\ DOMAIN tokens_by_id = TokenIds
    /\ last_mint.promises[2].amount > 0
    /\ last_mint.promises[2].amount < last_mint.attached

(* A build without overflow checks: a mint that attaches less than its     *)
(* cost is refused by the host when it schedules the wrapped refund.       *)
C20_Underpaid ==
    /\ ~overflow_checks
    /\ last_mint.op = "nft_mint"
    /\ last_mint.outcome = BalanceExceeded
    /\ last_mint.attached >= BASE_STORAGE_COST
    /\ last_mint.token_id \notin DOMAIN tokens_by_id

====
